---- MODULE Spec2Model ----
(***************************************************************************)
(* generateText of lstm-text-generation/model_from_initials.js: acrostic   *)
(* text generation with a next-character model.  Several generateText     *)
(* calls share one JavaScript thread, one model, one encoder and (the     *)
(* hardest case) one caller-owned seed array.  A call is modelled         *)
(* statement by statement; `running` is the call that holds the thread,   *)
(* which a call gives up only at its `await` and when it settles.         *)
(***************************************************************************)
EXTENDS Integers, Sequences, FiniteSets, TLC

\* ------------------------------------------------------------- bounds
NCalls == 2        \* generateText calls in flight
MaxLetters == 2    \* longest initialLetters
MaxRun == 2        \* most characters sampled for one word (the last is whitespace)

\* ------------------------------------------------ model / encoder shape
sampleLen == 2     \* model.inputs[0].shape[1]
CharSet == <<"a", "b", " ", "\n">>      \* textData's character set
charSetSize == Len(CharSet)             \* model.inputs[0].shape[2]

Calls == 1..NCalls
Indices == 0..(charSetSize - 1)
Undefined == "undefined"                \* a variable that holds no character or error yet
NoTensor == <<>>                        \* a tensor variable not assigned, or disposed
NoValue == <<>>                         \* the promise of a call that has not returned
Errors == {"E1", "E2"}                  \* error values a collaborator may raise
CallerArray == 0                        \* the array object the caller passes

LetterChars == {"a", "b"}
LetterSeqs == UNION {[1..n -> LetterChars] : n \in 0..MaxLetters}
Seeds == {<<0, 1>>, <<2, 2>>}           \* caller seed windows, length sampleLen
ConcurrentSeed == <<0, 1>>
ConcurrentLetters(c) == IF c = 1 THEN <<"b", "a">> ELSE <<"a">>

\* temperature, in units of 1e-6: zero (to be clamped), a half, one.
Temperatures == {0, 500000, 1000000}
TemperatureFloor == 1                   \* the 1e-6 of Math.max(temperature, 1e-6)
UndefinedIndex == -1                    \* stands for undefined where an index is expected
\* Edge-case arguments: "z" is not in the character set.
EdgeLetterSeqs == {<<"a">>, <<"z">>, <<"a", "z">>, <<"z", "a">>}
\* A model whose outputs are proper distributions, and one that may also
\* output the all-zero vector.
Models == {"proper", "degenerate"}

\* --------------------------------------------------- pure helpers
\* TextData.getFromCharSet(index): the character at a 0-based index.
getFromCharSet(index) == CharSet[index + 1]

\* TextData.textToIndices(text) for a one-character text: a one-element list,
\* or no index for a character that is not in the character set.
textToIndices(ch) ==
  IF \E k \in Indices : CharSet[k + 1] = ch
    THEN << (CHOOSE k \in Indices : CharSet[k + 1] = ch) >>
    ELSE <<>>

\* list[0] in JavaScript: undefined for an empty list.
At0(list) == IF list = <<>> THEN UndefinedIndex ELSE list[1]

\* Mutation of IsWhitespace: the pattern matches line ends only.
IsLineEnd(ch) == ch \in {"\n", "\r"}

\* /\s/.test(ch)
IsWhitespace(ch) == ch \in {" ", "\n", "\t", "\r"}

\* Array.prototype.slice(begin): the elements from 0-based position begin on.
slice(arr, begin) == SubSeq(arr, begin + 1, Len(arr))

\* The one-hot TensorBuffer [1, sampleLen, charSetSize] filled from the window:
\* row j holds a 1 at arr[j] (a position past the end of arr reads undefined,
\* and set() at an undefined position writes no element).
OneHot(arr) ==
  [j \in 1..sampleLen |->
     [k \in Indices |-> IF j <= Len(arr) /\ arr[j] = k THEN 1 ELSE 0]]

\* Output distributions of the model, as weights per index: peaked on one
\* index, or uniform.
Peaked(k) == [j \in Indices |-> IF j = k THEN 1 ELSE 0]
ProbVectors == {Peaked(k) : k \in Indices} \cup {[j \in Indices |-> 1]}
ZeroVector == [j \in Indices |-> 0]
Outputs(model) ==
  IF model = "proper" THEN ProbVectors ELSE ProbVectors \cup {ZeroVector}

\* Line 98: logits = tf.div(tf.log(probs), Math.max(temperature, 1e-6)).
\* log(0) is -Infinity and stays so when divided by the (positive) clamped
\* temperature; the weights here are 0 or 1 and log(1) = 0.
Logits(probs, temperature) ==
  LET t == IF temperature > TemperatureFloor THEN temperature ELSE TemperatureFloor
  IN [k \in Indices |-> IF probs[k] = 0 THEN [infinite |-> TRUE, value |-> 0]
                        ELSE [infinite |-> FALSE, value |-> 0 \div t]]

\* Mutation of Multinomial: the index drawn is reported 1-based.
MultinomialOneBased(logits) ==
  {k + 1 : k \in {j \in Indices : ~logits[j].infinite}}

\* Mutation of Multinomial: -Infinity is treated as a very small finite
\* logit, so every index can be drawn.
MultinomialFinite(logits) == Indices

\* Line 102: tf.multinomial(logits, 1, null, false).dataSync()[0], the indices
\* a draw can return: softmax gives an index with logit -Infinity the
\* probability 0 when some logit is finite.  When every logit is -Infinity
\* the softmax is NaN throughout and the index returned depends on the
\* backend's kernel: any index.
Multinomial(logits) ==
  IF \A k \in Indices : logits[k].infinite THEN Indices
  ELSE {k \in Indices : ~logits[k].infinite}

\* Lines 96-104: sample(probs, temperature), the indices it can return.
sample(probs, temperature) == Multinomial(Logits(probs, temperature))

\* The tensors of a call that are allocated and not disposed, by origin.
NoTensors == [input |-> 0, output |-> 0, squeezed |-> 0, intermediate |-> 0]

\* tf.tidy(fn): on return the tensors created while fn ran are disposed;
\* those alive before it are left alone (fn's result here is a number).
tidy(before, inside) == before

VARIABLES
  arrays,    \* the array objects: CallerArray, and one private array per call
  call,      \* per call: position and local variables of generateText
  callback,  \* per call: onTextGenerationChar invocations in flight
  log,       \* per call: what the collaborators have seen (history)
  running    \* the call executing on the thread, 0 when the thread is free

vars == <<arrays, call, callback, log, running>>

\* The locals of a generateText call that has not started: its arguments are
\* bound, everything else is still undefined.
InitCall(letters, onChar) ==
  [pc |-> "idle", initialLetters |-> letters, onTextGenerationChar |-> onChar,
   model |-> "proper", temperature |-> 1000000, live |-> NoTensors,
   sentenceIndices |-> CallerArray, generated |-> <<>>, i |-> 0,
   winnerChar |-> Undefined, winnerIndex |-> UndefinedIndex,
   input |-> NoTensor, output |-> NoTensor,
   returned |-> NoValue, rejection |-> Undefined]

InitLog ==
  [predictInputs |-> <<>>, onCharArgs |-> <<>>, words |-> <<>>,
   encoderCalls |-> 0, raised |-> <<>>]

InitRest(seed) ==
  /\ arrays = [a \in 0..NCalls |-> IF a = CallerArray THEN seed ELSE <<>>]
  /\ callback = [c \in Calls |-> [pending |-> 0, settled |-> "none"]]
  /\ log = [c \in Calls |-> InitLog]
  /\ running = 0

\* One generateText call, with any arguments; the other calls are never made.
Init ==
  /\ \E seed \in Seeds : InitRest(seed)
  /\ \E letters \in LetterSeqs, onChar \in BOOLEAN :
       call = [c \in Calls |-> IF c = 1 THEN InitCall(letters, onChar)
                               ELSE [InitCall(<<>>, FALSE) EXCEPT !.pc = "unused"]]

\* One generateText call with edge-case arguments: a letter outside the
\* character set, any temperature, a model that may output all zeros.
InitEdge ==
  /\ \E seed \in Seeds : InitRest(seed)
  /\ \E letters \in EdgeLetterSeqs, onChar \in BOOLEAN,
        model \in Models, temperature \in Temperatures :
       call = [c \in Calls |->
                 IF c = 1 THEN [InitCall(letters, onChar) EXCEPT
                                  !.model = model, !.temperature = temperature]
                 ELSE [InitCall(<<>>, FALSE) EXCEPT !.pc = "unused"]]

\* NCalls generateText calls on the same seed array, model and encoder, which
\* may overlap at their awaits.
InitConcurrent ==
  /\ InitRest(ConcurrentSeed)
  /\ \E onChar \in [Calls -> BOOLEAN] :
       call = [c \in Calls |-> InitCall(ConcurrentLetters(c), onChar[c])]

\* ------------------------------------------------------ small accessors
Set(c, r) == call' = [call EXCEPT ![c] = r]
Window(c) == arrays[call[c].sentenceIndices]
CurrentRun(c) == log[c].words[Len(log[c].words)]

\* Mutation of SliceResult: the elements are dropped in place (shift/splice),
\* the variable keeps referring to the same array object.
SliceInPlace(c, ref) == ref

\* Mutation of SliceResult: the window lives in one module-level array.
SliceShared(c, ref) == 1

\* The array object that `sentenceIndices = sentenceIndices.slice(..)` binds
\* the local variable to: a new array, private to call c (the array the
\* variable referred to before is untouched).
SliceResult(c, ref) == c

\* An uncaught exception inside the async function: the promise generateText
\* returned is rejected with it, nothing is returned, the thread is released.
Throw(c, e) ==
  /\ Set(c, [call[c] EXCEPT !.pc = "failed", !.rejection = e])
  /\ running' = 0

\* ------------------------------------------------------------ actions
\* Mutation of Start: the model is run once on the seed before the loop.
StartWithWarmUp(c) ==
  /\ running = 0
  /\ call[c].pc = "idle"
  /\ LET target == SliceResult(c, CallerArray) IN
       /\ arrays' = [arrays EXCEPT ![target] = slice(arrays[CallerArray], 0)]
       /\ Set(c, [call[c] EXCEPT !.pc = "for", !.sentenceIndices = target,
                                 !.generated = <<>>, !.i = 0])
  /\ log' = [log EXCEPT ![c].predictInputs = Append(@, OneHot(arrays[CallerArray]))]
  /\ running' = c
  /\ UNCHANGED callback

\* Lines 35-44: the call starts on a free thread, reads the model's shape,
\* copies the seed and empties the output.
Start(c) ==
  /\ running = 0
  /\ call[c].pc = "idle"
  /\ LET target == SliceResult(c, CallerArray) IN
       /\ arrays' = [arrays EXCEPT ![target] = slice(arrays[CallerArray], 0)]
       /\ Set(c, [call[c] EXCEPT !.pc = "for", !.sentenceIndices = target,
                                 !.generated = <<>>, !.i = 0])
  /\ running' = c
  /\ UNCHANGED <<callback, log>>

\* Mutation of ForTest: the loop stops one letter early.
ForTestOneShort(c) ==
  /\ running = c
  /\ call[c].pc = "for"
  /\ IF call[c].i < Len(call[c].initialLetters) - 1
       THEN /\ Set(c, [call[c] EXCEPT !.pc = "letter"])
            /\ UNCHANGED running
       ELSE /\ Set(c, [call[c] EXCEPT !.pc = "done", !.returned = call[c].generated])
            /\ running' = 0
  /\ UNCHANGED <<arrays, callback, log>>

\* Line 45: the for loop's test; line 82: return generated.
ForTest(c) ==
  /\ running = c
  /\ call[c].pc = "for"
  /\ IF call[c].i < Len(call[c].initialLetters)
       THEN /\ Set(c, [call[c] EXCEPT !.pc = "letter"])
            /\ UNCHANGED running
       ELSE /\ Set(c, [call[c] EXCEPT !.pc = "done", !.returned = call[c].generated])
            /\ running' = 0
  /\ UNCHANGED <<arrays, callback, log>>

\* Mutation of AppendLetter: the separator is written before every letter.
AppendLetterAlwaysSeparated(c) ==
  /\ running = c
  /\ call[c].pc = "letter"
  /\ LET letter == call[c].initialLetters[call[c].i + 1]
     IN Set(c, [call[c] EXCEPT !.pc = "sliceLetter",
                               !.generated = @ \o <<" ">> \o <<letter>>])
  /\ UNCHANGED <<arrays, callback, log, running>>

\* Mutation of AppendLetter: the initial letter is streamed to the callback too.
AppendLetterNotifying(c) ==
  /\ running = c
  /\ call[c].pc = "letter"
  /\ LET letter == call[c].initialLetters[call[c].i + 1]
         sep == IF call[c].i > 0 THEN <<" ">> ELSE <<>>
     IN /\ Set(c, [call[c] EXCEPT !.pc = "sliceLetter",
                                  !.generated = @ \o sep \o <<letter>>])
        /\ log' = [log EXCEPT ![c].onCharArgs =
                     IF call[c].onTextGenerationChar THEN Append(@, letter) ELSE @]
  /\ UNCHANGED <<arrays, callback, running>>

\* Lines 46-47: the separator (not before the first letter) and the letter.
AppendLetter(c) ==
  /\ running = c
  /\ call[c].pc = "letter"
  /\ LET letter == call[c].initialLetters[call[c].i + 1]
         sep == IF call[c].i > 0 THEN <<" ">> ELSE <<>>
     IN Set(c, [call[c] EXCEPT !.pc = "sliceLetter",
                               !.generated = @ \o sep \o <<letter>>])
  /\ UNCHANGED <<arrays, callback, log, running>>

\* Line 48: sentenceIndices = sentenceIndices.slice(1).
SliceLetter(c) ==
  /\ running = c
  /\ call[c].pc = "sliceLetter"
  /\ LET target == SliceResult(c, call[c].sentenceIndices) IN
       /\ arrays' = [arrays EXCEPT ![target] = slice(Window(c), 1)]
       /\ Set(c, [call[c] EXCEPT !.pc = "pushLetter", !.sentenceIndices = target])
  /\ UNCHANGED <<callback, log, running>>

\* Mutation of PushLetter: from the second letter on, the index of the
\* separator written to the output is pushed into the window as well.
PushLetterWithSeparator(c) ==
  /\ running = c
  /\ call[c].pc = "pushLetter"
  /\ LET letter == call[c].initialLetters[call[c].i + 1] IN
       arrays' = [arrays EXCEPT ![call[c].sentenceIndices] =
                    IF call[c].i > 0
                      THEN slice(@, 1) \o <<At0(textToIndices(" ")),
                                          At0(textToIndices(letter))>>
                      ELSE Append(@, At0(textToIndices(letter)))]
  /\ Set(c, [call[c] EXCEPT !.pc = "encode", !.winnerChar = Undefined])
  /\ log' = [log EXCEPT ![c].encoderCalls = @ + 1, ![c].words = Append(@, <<>>)]
  /\ UNCHANGED <<callback, running>>

\* Line 49: sentenceIndices.push(textData.textToIndices(initialLetters[i])[0]),
\* starting the word's run of sampled characters.
PushLetter(c) ==
  /\ running = c
  /\ call[c].pc = "pushLetter"
  /\ LET letter == call[c].initialLetters[call[c].i + 1] IN
       arrays' = [arrays EXCEPT ![call[c].sentenceIndices] =
                                   Append(@, At0(textToIndices(letter)))]
  /\ Set(c, [call[c] EXCEPT !.pc = "encode", !.winnerChar = Undefined])
  /\ log' = [log EXCEPT ![c].encoderCalls = @ + 1, ![c].words = Append(@, <<>>)]
  /\ UNCHANGED <<callback, running>>

\* Line 49, textToIndices raising.
TextToIndicesRaises(c) ==
  /\ running = c
  /\ call[c].pc = "pushLetter"
  /\ \E e \in Errors :
       /\ log' = [log EXCEPT ![c].encoderCalls = @ + 1, ![c].raised = Append(@, e)]
       /\ Throw(c, e)
  /\ UNCHANGED <<arrays, callback>>

\* Lines 54-60: the window as a one-hot tensor.
Encode(c) ==
  /\ running = c
  /\ call[c].pc = "encode"
  /\ Set(c, [call[c] EXCEPT !.pc = "predict", !.input = OneHot(Window(c)),
                            !.live.input = @ + 1])
  /\ UNCHANGED <<arrays, callback, log, running>>

\* Line 64: output = model.predict(input).  The model may return any
\* distribution; a word's run is capped at MaxRun characters by letting the
\* model leave only whitespace possible for the last one.
Predict(c) ==
  /\ running = c
  /\ call[c].pc = "predict"
  /\ \E probs \in Outputs(call[c].model) :
       /\ Len(CurrentRun(c)) >= MaxRun - 1 =>
            \A k \in sample(probs, call[c].temperature) : IsWhitespace(getFromCharSet(k))
       /\ Set(c, [call[c] EXCEPT !.pc = "sample", !.output = probs,
                                 !.live.output = @ + 1])
  /\ log' = [log EXCEPT ![c].predictInputs = Append(@, call[c].input)]
  /\ UNCHANGED <<arrays, callback, running>>

\* Mutation of PredictRaises: the error is caught and what was generated so
\* far is returned.
PredictRaisesReturnsPartial(c) ==
  /\ running = c
  /\ call[c].pc = "predict"
  /\ \E e \in Errors :
       log' = [log EXCEPT ![c].predictInputs = Append(@, call[c].input),
                          ![c].raised = Append(@, e)]
  /\ Set(c, [call[c] EXCEPT !.pc = "done", !.returned = call[c].generated])
  /\ running' = 0
  /\ UNCHANGED <<arrays, callback>>

\* Line 64, model.predict raising.
PredictRaises(c) ==
  /\ running = c
  /\ call[c].pc = "predict"
  /\ \E e \in Errors :
       /\ log' = [log EXCEPT ![c].predictInputs = Append(@, call[c].input),
                             ![c].raised = Append(@, e)]
       /\ Throw(c, e)
  /\ UNCHANGED <<arrays, callback>>

\* Line 67: winnerIndex = sample(tf.squeeze(output), temperature).
\* tf.squeeze makes a tensor outside sample's tidy; inside it tf.log, tf.div
\* and tf.multinomial make one each.
Sample(c) ==
  /\ running = c
  /\ call[c].pc = "sample"
  /\ \E k \in sample(call[c].output, call[c].temperature) :
       LET squeezed == [call[c].live EXCEPT !.squeezed = @ + 1]
           inside == [squeezed EXCEPT !.intermediate = @ + 3]
       IN
       /\ Set(c, [call[c] EXCEPT !.pc = "decode", !.winnerIndex = k,
                                 !.live = tidy(squeezed, inside)])
       /\ log' = [log EXCEPT ![c].words[Len(log[c].words)] = Append(@, k)]
  /\ UNCHANGED <<arrays, callback, running>>

\* Line 68: winnerChar = textData.getFromCharSet(winnerIndex).
Decode(c) ==
  /\ running = c
  /\ call[c].pc = "decode"
  /\ Set(c, [call[c] EXCEPT !.pc = "notify",
                            !.winnerChar = getFromCharSet(call[c].winnerIndex)])
  /\ log' = [log EXCEPT ![c].encoderCalls = @ + 1]
  /\ UNCHANGED <<arrays, callback, running>>

\* Line 68, getFromCharSet raising.
GetFromCharSetRaises(c) ==
  /\ running = c
  /\ call[c].pc = "decode"
  /\ \E e \in Errors :
       /\ log' = [log EXCEPT ![c].encoderCalls = @ + 1, ![c].raised = Append(@, e)]
       /\ Throw(c, e)
  /\ UNCHANGED <<arrays, callback>>

\* Mutation of Notify: winnerChar is appended to the output before the
\* callback is invoked.
NotifyAfterAppend(c) ==
  /\ running = c
  /\ call[c].pc = "notify"
  /\ IF call[c].onTextGenerationChar
       THEN /\ Set(c, [call[c] EXCEPT !.pc = "await",
                                      !.generated = Append(@, call[c].winnerChar)])
            /\ log' = [log EXCEPT ![c].onCharArgs = Append(@, call[c].winnerChar)]
            /\ callback' = [callback EXCEPT ![c].pending = @ + 1]
            /\ running' = 0
       ELSE /\ Set(c, [call[c] EXCEPT !.pc = "append"])
            /\ UNCHANGED <<log, callback, running>>
  /\ UNCHANGED arrays

\* Mutation of Notify: the callback's promise is not awaited.
NotifyNoAwait(c) ==
  /\ running = c
  /\ call[c].pc = "notify"
  /\ Set(c, [call[c] EXCEPT !.pc = "append"])
  /\ IF call[c].onTextGenerationChar
       THEN /\ log' = [log EXCEPT ![c].onCharArgs = Append(@, call[c].winnerChar)]
            /\ callback' = [callback EXCEPT ![c].pending = @ + 1]
       ELSE UNCHANGED <<log, callback>>
  /\ UNCHANGED <<arrays, running>>

\* Mutation of Notify: the await is outside the test of the callback
\* (await (onTextGenerationChar && onTextGenerationChar(winnerChar))), so a
\* call without a callback suspends too, on an already settled value.
NotifyAwaitsAnyway(c) ==
  /\ running = c
  /\ call[c].pc = "notify"
  /\ Set(c, [call[c] EXCEPT !.pc = "await"])
  /\ IF call[c].onTextGenerationChar
       THEN /\ log' = [log EXCEPT ![c].onCharArgs = Append(@, call[c].winnerChar)]
            /\ callback' = [callback EXCEPT ![c].pending = @ + 1]
       ELSE /\ callback' = [callback EXCEPT ![c].settled = "fulfilled"]
            /\ UNCHANGED log
  /\ running' = 0
  /\ UNCHANGED arrays

\* Lines 69-71: with a callback, onTextGenerationChar(winnerChar) is invoked
\* and the call suspends on the promise it returns (the await releases the
\* thread); without one the call goes straight on.
Notify(c) ==
  /\ running = c
  /\ call[c].pc = "notify"
  /\ IF call[c].onTextGenerationChar
       THEN /\ Set(c, [call[c] EXCEPT !.pc = "await"])
            /\ log' = [log EXCEPT ![c].onCharArgs = Append(@, call[c].winnerChar)]
            /\ callback' = [callback EXCEPT ![c].pending = @ + 1]
            /\ running' = 0
       ELSE /\ Set(c, [call[c] EXCEPT !.pc = "append"])
            /\ UNCHANGED <<log, callback, running>>
  /\ UNCHANGED arrays

\* Line 70, onTextGenerationChar raising before it returns a promise.
OnCharRaises(c) ==
  /\ running = c
  /\ call[c].pc = "notify"
  /\ call[c].onTextGenerationChar
  /\ \E e \in Errors :
       /\ log' = [log EXCEPT ![c].onCharArgs = Append(@, call[c].winnerChar),
                             ![c].raised = Append(@, e)]
       /\ Throw(c, e)
  /\ UNCHANGED <<arrays, callback>>

\* The callback's asynchronous work ends: its promise is fulfilled.
OnCharFulfilled(c) ==
  /\ running = 0
  /\ callback[c].pending > 0
  /\ callback[c].settled = "none"
  /\ callback' = [callback EXCEPT ![c].pending = @ - 1, ![c].settled = "fulfilled"]
  /\ UNCHANGED <<arrays, call, log, running>>

\* The callback's asynchronous work fails: its promise is rejected with e.
OnCharRejected(c) ==
  /\ running = 0
  /\ callback[c].pending > 0
  /\ callback[c].settled = "none"
  /\ \E e \in Errors :
       /\ callback' = [callback EXCEPT ![c].pending = @ - 1, ![c].settled = e]
       /\ log' = [log EXCEPT ![c].raised = Append(@, e)]
  /\ UNCHANGED <<arrays, call, running>>

\* Line 70: the awaited promise was fulfilled; the call takes the thread again.
Resume(c) ==
  /\ running = 0
  /\ call[c].pc = "await"
  /\ callback[c].settled = "fulfilled"
  /\ Set(c, [call[c] EXCEPT !.pc = "append"])
  /\ callback' = [callback EXCEPT ![c].settled = "none"]
  /\ running' = c
  /\ UNCHANGED <<arrays, log>>

\* Line 70: the awaited promise was rejected; the await throws its error.
ResumeThrows(c) ==
  /\ running = 0
  /\ call[c].pc = "await"
  /\ callback[c].settled \in Errors
  /\ Throw(c, callback[c].settled)
  /\ callback' = [callback EXCEPT ![c].settled = "none"]
  /\ UNCHANGED <<arrays, log>>

\* Line 73: generated += winnerChar.
AppendChar(c) ==
  /\ running = c
  /\ call[c].pc = "append"
  /\ Set(c, [call[c] EXCEPT !.pc = "sliceChar", !.generated = Append(@, call[c].winnerChar)])
  /\ UNCHANGED <<arrays, callback, log, running>>

\* Mutation of SliceChar: slice() drops nothing.
SliceCharNoDrop(c) ==
  /\ running = c
  /\ call[c].pc = "sliceChar"
  /\ LET target == SliceResult(c, call[c].sentenceIndices) IN
       /\ arrays' = [arrays EXCEPT ![target] = slice(Window(c), 0)]
       /\ Set(c, [call[c] EXCEPT !.pc = "pushChar", !.sentenceIndices = target])
  /\ UNCHANGED <<callback, log, running>>

\* Line 74: sentenceIndices = sentenceIndices.slice(1).
SliceChar(c) ==
  /\ running = c
  /\ call[c].pc = "sliceChar"
  /\ LET target == SliceResult(c, call[c].sentenceIndices) IN
       /\ arrays' = [arrays EXCEPT ![target] = slice(Window(c), 1)]
       /\ Set(c, [call[c] EXCEPT !.pc = "pushChar", !.sentenceIndices = target])
  /\ UNCHANGED <<callback, log, running>>

\* Line 75: sentenceIndices.push(winnerIndex).
PushChar(c) ==
  /\ running = c
  /\ call[c].pc = "pushChar"
  /\ arrays' = [arrays EXCEPT ![call[c].sentenceIndices] = Append(@, call[c].winnerIndex)]
  /\ Set(c, [call[c] EXCEPT !.pc = "dispose"])
  /\ UNCHANGED <<callback, log, running>>

\* Lines 78-79: input.dispose(); output.dispose().
Dispose(c) ==
  /\ running = c
  /\ call[c].pc = "dispose"
  /\ Set(c, [call[c] EXCEPT !.pc = "while", !.input = NoTensor, !.output = NoTensor,
                            !.live.input = @ - 1, !.live.output = @ - 1])
  /\ UNCHANGED <<arrays, callback, log, running>>

\* Mutation of WhileTest: the test is inverted (the word goes on while
\* winnerChar is whitespace).
WhileTestInverted(c) ==
  /\ running = c
  /\ call[c].pc = "while"
  /\ IF IsWhitespace(call[c].winnerChar)
       THEN Set(c, [call[c] EXCEPT !.pc = "encode"])
       ELSE Set(c, [call[c] EXCEPT !.pc = "for", !.i = @ + 1])
  /\ UNCHANGED <<arrays, callback, log, running>>

\* Line 80: the word goes on until winnerChar is whitespace; then i++.
WhileTest(c) ==
  /\ running = c
  /\ call[c].pc = "while"
  /\ IF IsWhitespace(call[c].winnerChar)
       THEN Set(c, [call[c] EXCEPT !.pc = "for", !.i = @ + 1])
       ELSE Set(c, [call[c] EXCEPT !.pc = "encode"])
  /\ UNCHANGED <<arrays, callback, log, running>>

Next ==
  \E c \in Calls :
    \/ Start(c)
    \/ ForTest(c)
    \/ AppendLetter(c)
    \/ SliceLetter(c)
    \/ PushLetter(c)
    \/ TextToIndicesRaises(c)
    \/ Encode(c)
    \/ Predict(c)
    \/ PredictRaises(c)
    \/ Sample(c)
    \/ Decode(c)
    \/ GetFromCharSetRaises(c)
    \/ Notify(c)
    \/ OnCharRaises(c)
    \/ OnCharFulfilled(c)
    \/ OnCharRejected(c)
    \/ Resume(c)
    \/ ResumeThrows(c)
    \/ AppendChar(c)
    \/ SliceChar(c)
    \/ PushChar(c)
    \/ Dispose(c)
    \/ WhileTest(c)

Spec == Init /\ [][Next]_vars

SpecConcurrent == InitConcurrent /\ [][Next]_vars

\* The steps of call c when no collaborator raises.
Live(c) ==
  \/ Start(c)
  \/ ForTest(c)
  \/ AppendLetter(c)
  \/ SliceLetter(c)
  \/ PushLetter(c)
  \/ Encode(c)
  \/ Predict(c)
  \/ Sample(c)
  \/ Decode(c)
  \/ Notify(c)
  \/ OnCharFulfilled(c)
  \/ Resume(c)
  \/ AppendChar(c)
  \/ SliceChar(c)
  \/ PushChar(c)
  \/ Dispose(c)
  \/ WhileTest(c)

NextLive == \E c \in Calls : Live(c)

\* One call, no collaborator raises, every onChar promise is eventually
\* fulfilled, and the event loop runs a call that can go on.  The sampler's
\* fairness is the bound MaxRun: whitespace is drawn by then.
SpecLive == Init /\ [][NextLive]_vars /\ \A c \in Calls : WF_vars(Live(c))

SpecEdge == InitEdge /\ [][Next]_vars

\* ------------------------------------------------------------ claims
RECURSIVE Flat(_)
\* The concatenation of a sequence of sequences.
Flat(ws) == IF ws = <<>> THEN <<>> ELSE Head(ws) \o Flat(Tail(ws))

\* The indices sampled by call c so far, in generation order.
Sampled(c) == Flat(log[c].words)

Started == {c \in Calls : call[c].pc \notin {"idle", "unused"}}

\* C1: generateText never changes the caller's seedIndices array: every step
\* of every call leaves its contents (and so its length) as they were; the
\* window shifts act on the call's own copy.
C1_SeedNotMutated == [][arrays'[CallerArray] = arrays[CallerArray]]_vars

\* A call has shifted its window through two words and returned, its window
\* now differing from the seed.
C1_Witness ==
  /\ call[1].pc = "done"
  /\ Len(log[1].words) = 2
  /\ Window(1) # arrays[CallerArray]

\* C2: with a callback, onChar is invoked once per sampled character and with
\* nothing else (no initial letter, no separator): its arguments are the
\* sampled characters in generation order, the latest one missing only
\* between its sampling and the invocation; without a callback, never.
C2_OnCharPerSampled ==
  \A c \in Started :
    LET chars == [k \in 1..Len(Sampled(c)) |-> getFromCharSet(Sampled(c)[k])]
        args == log[c].onCharArgs
        pc == call[c].pc
    IN IF call[c].onTextGenerationChar
         THEN /\ Len(args) <= Len(chars)
              /\ args = SubSeq(chars, 1, Len(args))
              /\ pc \in {"decode", "notify", "failed"} => Len(args) >= Len(chars) - 1
              /\ pc \notin {"decode", "notify", "failed"} => Len(args) = Len(chars)
              /\ Len(args) \in {Len(log[c].predictInputs) - 1, Len(log[c].predictInputs)}
              /\ pc \notin {"sample", "decode", "notify", "failed"} =>
                   Len(args) = Len(log[c].predictInputs)
         ELSE args = <<>>

\* A call with a callback has returned two words of two sampled characters each.
C2_Witness ==
  /\ call[1].pc = "done"
  /\ call[1].onTextGenerationChar
  /\ Len(log[1].onCharArgs) = 4
  /\ Len(call[1].initialLetters) = 2

\* C3: while an onChar invocation of a call is in flight (started, its
\* promise not settled), the call does nothing: no predict, no sampling, no
\* window shift, no append, no other onChar invocation.
C3_NothingWhilePending ==
  [][\A c \in Calls :
       callback[c].pending > 0 =>
         /\ call'[c].pc = call[c].pc
         /\ call'[c].generated = call[c].generated
         /\ call'[c].sentenceIndices = call[c].sentenceIndices
         /\ arrays'[call[c].sentenceIndices] = arrays[call[c].sentenceIndices]
         /\ log'[c].predictInputs = log[c].predictInputs
         /\ log'[c].words = log[c].words
         /\ log'[c].onCharArgs = log[c].onCharArgs
         /\ callback'[c].pending <= callback[c].pending]_vars

\* The second onChar invocation of a call is in flight.
C3_Witness ==
  /\ callback[1].pending = 1
  /\ Len(log[1].onCharArgs) = 2

\* The length of the output once i letters are complete, letter i+1 has been
\* written and n characters have been sampled and appended.
OutputLen(i, n) == (i + 1) + i + n

\* C4 as stated: when an onChar invocation starts (and while it is in
\* flight) the output already ends with the character passed to it.
C4_AppendedBeforeOnChar ==
  \A c \in Calls :
    callback[c].pending > 0 =>
      /\ Len(call[c].generated) = OutputLen(call[c].i, Len(log[c].onCharArgs))
      /\ call[c].generated[Len(call[c].generated)] =
           log[c].onCharArgs[Len(log[c].onCharArgs)]

\* C4 amended: onChar(ch) is invoked before ch is appended.  While the
\* invocation is in flight the output holds the letters, the separators and
\* the characters sampled earlier, not ch, and the next iteration has not
\* begun; ch is in the output by the time the next model.predict is prepared.
C4_OnCharBeforeAppend ==
  \A c \in Calls :
    call[c].onTextGenerationChar =>
      /\ callback[c].pending > 0 =>
           /\ Len(call[c].generated) = OutputLen(call[c].i, Len(log[c].onCharArgs) - 1)
           /\ Len(log[c].predictInputs) = Len(log[c].onCharArgs)
           /\ call[c].winnerChar = log[c].onCharArgs[Len(log[c].onCharArgs)]
      /\ call[c].pc \in {"encode", "predict"} =>
           Len(call[c].generated) = OutputLen(call[c].i, Len(log[c].onCharArgs))

\* The third onChar invocation of a call, in its second word, is in flight.
C4_Witness ==
  /\ callback[1].pending = 1
  /\ call[1].i = 1
  /\ Len(log[1].onCharArgs) = 3

\* Where the segment of letter k starts in the output of call c (1-based),
\* given the runs sampled for the words before it.
SegStart(c, k) == k + (k - 1) + Len(Flat(SubSeq(log[c].words, 1, k - 1)))

\* C5: in the returned string exactly one space stands between a word's run
\* (whatever whitespace ended it, a space included) and the next initial
\* letter, and none before the first letter: the string holds, besides the
\* letters and the sampled characters, one character per pair of consecutive
\* letters, a space right before the later letter.
C5_OneSeparator ==
  \A c \in Calls :
    call[c].pc = "done" /\ call[c].initialLetters # <<>> =>
      LET n == Len(call[c].initialLetters)
          out == call[c].returned
      IN /\ Len(out) = n + Len(Sampled(c)) + (n - 1)
         /\ out[1] = call[c].initialLetters[1]
         /\ \A k \in 2..n :
              /\ out[SegStart(c, k)] = call[c].initialLetters[k]
              /\ out[SegStart(c, k) - 1] = " "
              /\ out[SegStart(c, k) - 2] = getFromCharSet(log[c].words[k - 1][Len(log[c].words[k - 1])])

\* Two letters, the first word ended by a sampled space: returned.
C5_Witness ==
  /\ call[1].pc = "done"
  /\ Len(call[1].initialLetters) = 2
  /\ getFromCharSet(log[1].words[1][Len(log[1].words[1])]) = " "

\* C6: for empty initialLetters generateText returns the empty string, with
\* no model.predict call, no sampling, no encoder call, no onChar invocation
\* (and no failure).
C6_EmptyLetters ==
  \A c \in Started :
    call[c].initialLetters = <<>> =>
      /\ log[c] = InitLog
      /\ callback[c].pending = 0
      /\ call[c].pc \in {"for", "done"}
      /\ call[c].pc = "done" => call[c].returned = <<>>

\* A call with a callback and no letters has returned.
C6_Witness ==
  /\ call[1].pc = "done"
  /\ call[1].initialLetters = <<>>
  /\ call[1].onTextGenerationChar

RECURSIVE Render(_, _)
\* The text made of letters and the runs sampled for them: per letter, a
\* space if it is not the first, the letter, the characters of its run.
Render(letters, words) ==
  IF letters = <<>> THEN <<>>
  ELSE LET n == Len(letters)
           run == [k \in 1..Len(words[n]) |-> getFromCharSet(words[n][k])]
       IN Render(SubSeq(letters, 1, n - 1), SubSeq(words, 1, n - 1))
            \o (IF n > 1 THEN <<" ">> ELSE <<>>) \o <<letters[n]>> \o run

\* C7: the returned string is, for each initial letter in order, a space
\* (not for the first), the letter, and a non-empty run of sampled
\* characters of which the last, and only the last, is whitespace; so with
\* letters it ends, untrimmed, with the last sampled whitespace.
C7_ReturnedForm ==
  \A c \in Calls :
    call[c].pc = "done" =>
      LET letters == call[c].initialLetters
          words == log[c].words
      IN /\ Len(words) = Len(letters)
         /\ call[c].i = Len(letters)
         /\ \A k \in 1..Len(words) :
              /\ words[k] # <<>>
              /\ \A j \in 1..Len(words[k]) :
                   IsWhitespace(getFromCharSet(words[k][j])) <=> j = Len(words[k])
         /\ call[c].returned = Render(letters, words)
         /\ letters # <<>> =>
              /\ IsWhitespace(call[c].returned[Len(call[c].returned)])
              /\ call[c].returned[Len(call[c].returned)] = call[c].winnerChar

\* Two words of two sampled characters each, the last a line end: returned.
C7_Witness ==
  /\ call[1].pc = "done"
  /\ Len(call[1].initialLetters) = 2
  /\ Len(call[1].returned) = 7
  /\ call[1].returned[7] = "\n"

\* The number of model.predict calls made for the words of call c so far.
PredictCalls(c) == Len(log[c].predictInputs)

\* C8: a word whose first sampled character is whitespace has no second
\* one: its loop ends after that one model.predict call.  For
\* initialLetters = ["a"] and a first output peaked on the space,
\* generateText returns "a " after exactly one model.predict call.
C8_WhitespaceFirst ==
  \A c \in Started :
    /\ \A k \in 1..Len(log[c].words) :
         (log[c].words[k] # <<>> /\ IsWhitespace(getFromCharSet(log[c].words[k][1])))
           => Len(log[c].words[k]) = 1
    /\ call[c].pc \notin {"sample", "failed"} => PredictCalls(c) = Len(Sampled(c))
    /\ (call[c].pc = "done" /\ call[c].initialLetters = <<"a">>
          /\ log[c].words[1][1] = textToIndices(" ")[1])
         => /\ call[c].returned = <<"a", " ">>
            /\ PredictCalls(c) = 1

\* initialLetters = ["a"], the first output peaked on the space: returned.
C8_Witness ==
  /\ call[1].pc = "done"
  /\ call[1].initialLetters = <<"a">>
  /\ log[1].words = << <<textToIndices(" ")[1]>> >>
  /\ log[1].predictInputs # <<>>

\* C9: an error raised by model.predict, by the encoder or by onChar is the
\* outcome of generateText: the call fails with that error at once (for a
\* rejected onChar promise, when the await delivers it), returns nothing,
\* and a failed call does nothing more (no retry, no predict, no onChar).
C9_ErrorsPropagate ==
  [][\A c \in Calls :
       /\ call[c].pc = "failed" =>
            /\ call'[c].pc = "failed"
            /\ call'[c].rejection = call[c].rejection
            /\ log'[c] = log[c]
            /\ callback'[c] = callback[c]
       /\ log'[c].raised # log[c].raised =>
            /\ log[c].raised = <<>>
            /\ Len(log'[c].raised) = 1
            /\ \/ /\ call'[c].pc = "failed"
                  /\ call'[c].rejection = log'[c].raised[1]
               \/ /\ call'[c].pc = "await"
                  /\ callback'[c].settled = log'[c].raised[1]
       /\ (callback[c].settled \in Errors /\ call'[c].pc # call[c].pc) =>
            /\ call'[c].pc = "failed"
            /\ call'[c].rejection = callback[c].settled]_vars

\* A call failed on an error raised in its second word.
C9_Witness ==
  /\ call[1].pc = "failed"
  /\ call[1].i = 1
  /\ call[1].rejection = "E2"
  /\ log[1].raised = <<"E2">>

\* Every index call c has pushed or will push for what it has sampled so far,
\* after the seed: per word, the letter's index, then the word's run.
Stream(c) ==
  ConcurrentSeed \o
    Flat([k \in 1..Len(log[c].words) |->
            <<At0(textToIndices(call[c].initialLetters[k]))>> \o log[c].words[k]])

\* The word in which call c made its n-th model.predict call.
WordOf(c, n) ==
  LET ends == {k \in 1..Len(log[c].words) :
                 Len(Flat(SubSeq(log[c].words, 1, k))) >= n}
  IN IF ends = {} THEN Len(log[c].words)
     ELSE CHOOSE k \in ends : \A j \in ends : k <= j

\* The window a call running alone feeds to its n-th model.predict call: the
\* last sampleLen indices of the seed, its letters' indices and its first
\* n - 1 sampled indices.
WindowAlone(c, n) ==
  LET upto == sampleLen + (n - 1) + WordOf(c, n)
  IN SubSeq(Stream(c), upto - sampleLen + 1, upto)

\* C10: generateText calls that overlap at their awaits, on the same seed
\* array, model and encoder, do not interfere: every window a call feeds to
\* the model, and the string it returns, are those of the call running alone
\* on its own letters and its own sampled characters.
C10_CallsIndependent ==
  \A c \in Started :
    /\ \A n \in 1..Len(log[c].predictInputs) :
         log[c].predictInputs[n] = OneHot(WindowAlone(c, n))
    /\ call[c].pc = "done" => call[c].returned = Render(call[c].initialLetters, log[c].words)

\* Two calls are suspended at their awaits at once, each with its second
\* sampled character.
C10_Witness ==
  /\ call[1].pc = "await"
  /\ call[2].pc = "await"
  /\ Len(log[1].predictInputs) = 2
  /\ Len(log[2].predictInputs) = 2

HasZero(probs) == \E k \in Indices : probs[k] = 0
HasPositive(probs) == \E k \in Indices : probs[k] > 0

\* C11 as stated: for every probs with a zero entry, the all-zero vector
\* included, the index sample returns has a non-zero entry.
C11_ZeroNeverDrawnAtAll ==
  \A c \in Calls :
    (call[c].pc = "decode" /\ HasZero(call[c].output))
      => call[c].output[call[c].winnerIndex] > 0

\* C11 amended: for every probs with a zero entry sample returns an index
\* (it does not raise); when probs also has a positive entry, the index
\* returned never has a zero entry.  For the all-zero vector the index
\* returned necessarily has one.
C11_ZeroNeverDrawn ==
  \A c \in Calls :
    /\ (call[c].pc = "sample" /\ HasZero(call[c].output))
         => sample(call[c].output, call[c].temperature) # {}
    /\ (call[c].pc = "decode" /\ HasZero(call[c].output))
         => /\ call[c].winnerIndex \in Indices
            /\ HasPositive(call[c].output) => call[c].output[call[c].winnerIndex] > 0

\* sample has returned for a vector with three zero entries, the temperature
\* clamped from zero.
C11_Witness ==
  /\ call[1].pc = "decode"
  /\ call[1].temperature = 0
  /\ call[1].output = Peaked(2)
  /\ call[1].winnerIndex = 2

\* C12: for a probs vector with a positive entry and a temperature > 0,
\* sample returns an index in 0..charSetSize-1, and so every index pushed
\* into the window after sampling is an index of the character set.
C12_SampleInRange ==
  \A c \in Calls :
    call[c].temperature > 0 =>
      /\ (call[c].pc = "decode" /\ HasPositive(call[c].output))
           => call[c].winnerIndex \in Indices
      /\ \A k \in 1..Len(Sampled(c)) : Sampled(c)[k] \in Indices
      /\ call[c].pc \in {"dispose", "while"} =>
           /\ Window(c)[Len(Window(c))] = call[c].winnerIndex
           /\ Window(c)[Len(Window(c))] \in Indices

\* At temperature one half a sampled index has been pushed into the window.
C12_Witness ==
  /\ call[1].pc = "dispose"
  /\ call[1].temperature = 500000
  /\ Window(1)[sampleLen] = 1

\* The window of call c has its full length: always, except between the two
\* halves of a shift (and in a call that failed between them).
WindowFull(c) ==
  IF call[c].pc \in {"pushLetter", "pushChar"}
    THEN Len(Window(c)) = sampleLen - 1
    ELSE call[c].pc # "failed" => Len(Window(c)) = sampleLen

\* A step that changes the window of call c is one half of a shift: the
\* oldest index is dropped, or the letter's index or the sampled index is
\* appended to the window that lost its oldest.
WindowShifts(c) ==
  LET before == arrays[call[c].sentenceIndices]
      after == arrays'[call'[c].sentenceIndices]
  IN after # before =>
       \/ /\ call[c].pc \in {"sliceLetter", "sliceChar"}
          /\ after = Tail(before)
       \/ /\ call[c].pc = "pushLetter"
          /\ after = Append(before,
                            At0(textToIndices(call[c].initialLetters[call[c].i + 1])))
          /\ Len(after) = sampleLen
       \/ /\ call[c].pc = "pushChar"
          /\ after = Append(before, call[c].winnerIndex)
          /\ Len(after) = sampleLen

\* C13: with a seed of length sampleLen, the window has length sampleLen at
\* every model.predict call and after every shift, and it changes only by
\* shifts: the oldest index dropped, then one index appended (the letter's
\* or the sampled one).
C13_WindowLength ==
  /\ [](\A c \in Started : WindowFull(c))
  /\ [][\A c \in Calls : WindowShifts(c)]_vars

\* In its second word a call is about to run the model on a window that
\* holds none of the seed.
C13_Witness ==
  /\ call[1].pc = "predict"
  /\ call[1].i = 1
  /\ Len(Sampled(1)) = 2
  /\ Len(Window(1)) = sampleLen

\* The tensors call c holds allocated.
LiveTensors(c) ==
  call[c].live.input + call[c].live.output + call[c].live.squeezed
    + call[c].live.intermediate

\* C14: when an iteration of the inner loop has completed normally, every
\* tensor it created (the one-hot input, the model's output, the squeezed
\* view handed to sample, sample's intermediates) is released: the call
\* holds no tensor, however many characters it has generated.
C14_TensorsReleased ==
  \A c \in Calls : call[c].pc = "while" => LiveTensors(c) = 0

\* C15: when an error ends the call, the input tensor of the iteration (and
\* the output tensor, if the model produced one) has been released.
C15_ReleasedOnError ==
  \A c \in Calls :
    call[c].pc = "failed" => (call[c].live.input = 0 /\ call[c].live.output = 0)

\* C16: with every onChar promise fulfilled, no collaborator raising and a
\* fair sampler, a call that is made consumes all its initial letters and
\* returns; and a word's loop is left only on a sampled whitespace.
C16_RunsToCompletion ==
  /\ \A c \in Calls :
       (call[c].pc = "idle") ~>
         (call[c].pc = "done" /\ call[c].i = Len(call[c].initialLetters))
  /\ [][\A c \in Calls :
          call[c].pc = "while" =>
            (call'[c].pc = "for" <=> IsWhitespace(call[c].winnerChar))]_vars

\* A call with a callback has returned two words of two characters each.
C16_Witness ==
  /\ call[1].pc = "done"
  /\ call[1].onTextGenerationChar
  /\ call[1].i = 2
  /\ Len(Sampled(1)) = 4

\* The call has started and has neither returned nor failed.
InProgress(c) == call[c].pc \notin {"unused", "idle", "done", "failed"}

\* C17: a call gives up the thread only by returning, by failing, or at the
\* await of an onChar invocation, and every onChar invocation gives it up;
\* so a call without a callback holds the thread from its start to its end
\* and nothing of another call changes meanwhile.
C17_OnlyAwaitYields ==
  [][\A c \in Calls :
       /\ (running = c /\ running' # c) =>
            \/ call'[c].pc \in {"done", "failed"}
            \/ /\ call[c].onTextGenerationChar
               /\ call[c].pc = "notify"
               /\ call'[c].pc = "await"
       /\ (call[c].onTextGenerationChar /\ call[c].pc = "notify"
             /\ call'[c].pc # "notify") => running' = 0
       /\ (InProgress(c) /\ ~call[c].onTextGenerationChar) =>
            /\ running = c
            /\ \A d \in Calls \ {c} :
                 /\ call'[d] = call[d]
                 /\ callback'[d] = callback[d]
                 /\ log'[d] = log[d]]_vars

\* A call without a callback is in its second iteration while the other
\* call, started before it, is still suspended on its first onChar promise.
C17_Witness ==
  /\ ~call[1].onTextGenerationChar
  /\ call[1].pc = "predict"
  /\ Len(Sampled(1)) = 1
  /\ call[2].pc = "await"
  /\ callback[2].pending = 1
  /\ Len(log[2].onCharArgs) = 1

\* The call has a letter for which the encoder has no index.
HasUnknownLetter(c) ==
  \E n \in 1..Len(call[c].initialLetters) :
    textToIndices(call[c].initialLetters[n]) = <<>>

\* C18: a letter without an index makes the call fail: the model is never
\* run on a window that holds the missing index, and a call with such a
\* letter does not return.
C18_UnknownLetterFails ==
  \A c \in Calls :
    /\ call[c].pc = "sample" =>
         \A j \in 1..Len(Window(c)) : Window(c)[j] # UndefinedIndex
    /\ call[c].pc = "done" => ~HasUnknownLetter(c)

\* The indices call c has pushed into its window so far: per word, the
\* letter's index, then the indices sampled for the word.
Pushed(c) ==
  Flat([k \in 1..Len(log[c].words) |->
          textToIndices(call[c].initialLetters[k]) \o log[c].words[k]])

\* The last n elements of a sequence of at least n elements.
LastN(seq, n) == SubSeq(seq, Len(seq) - n + 1, Len(seq))

\* The positions in the output of call c of the separators written at line
\* 46, one before each word but the first.
SeparatorPositions(c) ==
  {Len(Flat(SubSeq(log[c].words, 1, k - 1))) + 2 * (k - 1) :
     k \in 2..Len(log[c].words)}

\* The output of call c without its separators.
WithoutSeparators(c) ==
  LET kept == (1..Len(call[c].generated)) \ SeparatorPositions(c)
      nth(n) == CHOOSE p \in kept : Cardinality({q \in kept : q <= p}) = n
  IN [n \in 1..Cardinality(kept) |-> call[c].generated[nth(n)]]

\* C19: at every model.predict call the window is the last sampleLen
\* elements of the seed followed by the letters' indices and the sampled
\* indices in order; the separators of the output are not among them: the
\* characters of the pushed indices are the output without its separators.
C19_WindowSkipsSeparators ==
  \A c \in Calls :
    call[c].pc = "predict" =>
      /\ Window(c) = LastN(arrays[CallerArray] \o Pushed(c), sampleLen)
      /\ call[c].input = OneHot(Window(c))
      /\ Len(call[c].generated) = Len(Pushed(c)) + Len(log[c].words) - 1
      /\ WithoutSeparators(c) =
           [n \in 1..Len(Pushed(c)) |-> getFromCharSet(Pushed(c)[n])]

\* The model is about to be run for the second word, after a first word
\* ended by a line end: the window holds the line end and the second letter
\* where the output ends with the separator and the letter.
C19_Witness ==
  /\ call[1].pc = "predict"
  /\ Len(log[1].words) = 2
  /\ LET n == Len(call[1].generated) IN
       /\ call[1].generated[n - 1] = " "
       /\ getFromCharSet(Window(1)[sampleLen - 1]) = "\n"
       /\ getFromCharSet(Window(1)[sampleLen]) = call[1].generated[n]

====
